---- MODULE Spec2Model ----
(***************************************************************************)
(* The command execution sandbox of the AI agent: the command guard, the   *)
(* path guard, the executor and the file operations of the two tool        *)
(* server variants, src/scr/tool_server.py (the richer one) and            *)
(* src/src/tool_server.py (the simplified one, with DockerAIAgent).        *)
(*                                                                         *)
(* Text is modelled as a sequence of one-character strings, so that        *)
(* startswith, substring containment, lower() and shlex.split are          *)
(* computed character by character as the code computes them.              *)
(***************************************************************************)
EXTENDS Integers, Sequences, FiniteSets, TLC

VARIABLES
    variant,            \* which tool_server.py was constructed: "scr" or "src"
    cfg_allowed,        \* the allowed_commands argument given to __init__
    allowed_commands,   \* self.allowed_commands
    timeout,            \* self.timeout
    fs,                 \* the filesystem: canonical location -> node
    pc,                 \* "idle", "running" (inside subprocess.run) or "done"
    call,               \* the call in progress: operation and arguments
    result,             \* what the call returned (or the exception it let escape)
    touched,            \* locations the operation itself accessed in this call
    spawned,            \* the processes the call spawned: <<[command, cwd]>>
    proc,               \* the child process of subprocess.run and its clock
    nops,               \* calls completed so far
    last_write,         \* the write_file call that returned last, if it was the last call
    requests,           \* the HTTP requests of the agent: endpoint -> state
    monitor,            \* the SystemMonitor: its flag, its thread, the loops
    tracker             \* the CostTracker: its database, its cache, the clock

vars == <<variant, cfg_allowed, allowed_commands, timeout, fs, pc, call,
          result, touched, spawned, proc, nops, last_write, requests,
          monitor, tracker>>

(***************************************************************************)
(* Bounds of the model.                                                    *)
(***************************************************************************)
\* Commands of the guard specification are concatenations of at most this
\* many atoms.
MaxAtoms == 3
\* Calls per behaviour of the tool server specification.
MaxOps == 2
\* The timeout the tool server is constructed with, in clock ticks.
ConfiguredTimeout == 2
\* The largest timeout a caller passes to execute.
MaxTimeout == 2
\* Monitoring loop threads started, days of the clock, and usages tracked.
MaxThreads == 3
MaxDay == 2
MaxRows == 3

(***************************************************************************)
(* Text helpers.                                                           *)
(***************************************************************************)
UpperChars == <<"A","B","C","D","E","F","G","H","I","J","K","L","M",
                "N","O","P","Q","R","S","T","U","V","W","X","Y","Z">>
LowerChars == <<"a","b","c","d","e","f","g","h","i","j","k","l","m",
                "n","o","p","q","r","s","t","u","v","w","x","y","z">>

\* str.lower() on one character.
LowerChar(c) ==
    IF \E i \in 1..Len(UpperChars) : UpperChars[i] = c
    THEN LowerChars[CHOOSE i \in 1..Len(UpperChars) : UpperChars[i] = c]
    ELSE c

\* str.lower()
Lower(s) == [i \in 1..Len(s) |-> LowerChar(s[i])]

\* s.startswith(p)
StartsWith(s, p) ==
    /\ Len(p) <= Len(s)
    /\ \A i \in 1..Len(p) : s[i] = p[i]

\* p in s, for strings
Contains(s, p) ==
    \E k \in 0..(Len(s) - Len(p)) : \A i \in 1..Len(p) : s[k + i] = p[i]

\* s.split('/')[0] in place of s.split('/')[-1]: what precedes the first '/'.
LastSegment_first(s) ==
    IF \E i \in 1..Len(s) : s[i] = "/"
    THEN SubSeq(s, 1, (CHOOSE i \in 1..Len(s) :
                          s[i] = "/" /\ \A j \in 1..(i - 1) : s[j] # "/") - 1)
    ELSE s

\* s.split('/')[-1]: what follows the last '/', the whole of s without one.
RECURSIVE LastSegment(_)
LastSegment(s) ==
    IF \E i \in 1..Len(s) : s[i] = "/"
    THEN LET i == CHOOSE j \in 1..Len(s) : s[j] = "/"
         IN  LastSegment(SubSeq(s, i + 1, Len(s)))
    ELSE s

(***************************************************************************)
(* shlex.split(command): shlex in POSIX mode with whitespace_split and no  *)
(* comment characters.  The scanner's states are " " (between tokens),     *)
(* "a" (in a word), a quote character (inside quotes) and the escape       *)
(* character (after a backslash).                                          *)
(***************************************************************************)
ShlexWhitespace == {" ", "\t", "\r", "\n"}
ShlexQuotes == {"'", "\""}
ShlexEscape == "\\"
ShlexEscapedQuotes == {"\""}

RECURSIVE ShlexScan(_, _, _, _, _, _, _)
ShlexScan(s, i, state, token, quoted, escapedstate, parts) ==
    IF i > Len(s)
    THEN IF state \in ShlexQuotes
         THEN [ok |-> FALSE, error |-> "No closing quotation", parts |-> <<>>]
         ELSE IF state = ShlexEscape
         THEN [ok |-> FALSE, error |-> "No escaped character", parts |-> <<>>]
         ELSE [ok |-> TRUE, error |-> "",
               parts |-> IF token # <<>> \/ quoted
                         THEN Append(parts, token) ELSE parts]
    ELSE LET c == s[i] IN
         IF state = " "
         THEN IF c \in ShlexWhitespace
              THEN ShlexScan(s, i + 1, " ", token, quoted, escapedstate, parts)
              ELSE IF c = ShlexEscape
              THEN ShlexScan(s, i + 1, ShlexEscape, token, quoted, "a", parts)
              ELSE IF c \in ShlexQuotes
              THEN ShlexScan(s, i + 1, c, token, TRUE, escapedstate, parts)
              ELSE ShlexScan(s, i + 1, "a", <<c>>, quoted, escapedstate, parts)
         ELSE IF state \in ShlexQuotes
         THEN IF c = state
              THEN ShlexScan(s, i + 1, "a", token, TRUE, escapedstate, parts)
              ELSE IF c = ShlexEscape /\ state \in ShlexEscapedQuotes
              THEN ShlexScan(s, i + 1, ShlexEscape, token, TRUE, state, parts)
              ELSE ShlexScan(s, i + 1, state, Append(token, c), TRUE,
                             escapedstate, parts)
         ELSE IF state = ShlexEscape
         THEN LET kept == IF /\ escapedstate \in ShlexQuotes
                             /\ c # ShlexEscape
                             /\ c # escapedstate
                          THEN Append(token, ShlexEscape) ELSE token
              IN  ShlexScan(s, i + 1, escapedstate, Append(kept, c), quoted,
                            escapedstate, parts)
         ELSE \* state = "a"
              IF c \in ShlexWhitespace
              THEN ShlexScan(s, i + 1, " ", <<>>, FALSE, " ",
                             IF token # <<>> \/ quoted
                             THEN Append(parts, token) ELSE parts)
              ELSE IF c \in ShlexQuotes
              THEN ShlexScan(s, i + 1, c, token, TRUE, escapedstate, parts)
              ELSE IF c = ShlexEscape
              THEN ShlexScan(s, i + 1, ShlexEscape, token, quoted, "a", parts)
              ELSE ShlexScan(s, i + 1, "a", Append(token, c), quoted,
                             escapedstate, parts)

\* A tokenization that drops the quote characters instead of pairing them.
shlex_split_unquoted(s) ==
    ShlexScan(SelectSeq(s, LAMBDA ch : ch \notin ShlexQuotes), 1, " ", <<>>,
              FALSE, " ", <<>>)

shlex_split(s) == ShlexScan(s, 1, " ", <<>>, FALSE, " ", <<>>)

(***************************************************************************)
(* Configuration the constructors and the guards hold.                     *)
(***************************************************************************)
\* src/scr/tool_server.py, ToolServer.__init__
scr_default_allowed_commands ==
  {
    <<"l","s">>, <<"c","d">>, <<"p","w","d">>,
    <<"c","a","t">>, <<"g","r","e","p">>, <<"f","i","n","d">>,
    <<"m","k","d","i","r">>, <<"t","o","u","c","h">>, <<"c","p">>,
    <<"m","v">>, <<"r","m">>, <<"c","h","m","o","d">>,
    <<"c","h","o","w","n">>, <<"p","y","t","h","o","n">>, <<"p","y","t","h","o","n","3">>,
    <<"p","i","p">>, <<"g","i","t">>, <<"d","o","c","k","e","r">>,
    <<"n","p","m">>, <<"n","o","d","e">>, <<"e","c","h","o">>,
    <<"c","u","r","l">>, <<"w","g","e","t">>, <<"s","s","h">>,
    <<"s","c","p">>, <<"r","s","y","n","c">>, <<"t","a","r">>,
    <<"z","i","p">>, <<"u","n","z","i","p">>, <<"d","f">>,
    <<"d","u">>, <<"h","e","a","d">>, <<"t","a","i","l">>,
    <<"w","c">>, <<"s","o","r","t">>, <<"u","n","i","q">>,
    <<"d","i","f","f">>, <<"p","a","t","c","h">> }

\* src/src/tool_server.py, ToolServer.__init__
src_default_allowed_commands ==
  {
    <<"l","s">>, <<"c","d">>, <<"p","w","d">>,
    <<"c","a","t">>, <<"g","r","e","p">>, <<"f","i","n","d">>,
    <<"m","k","d","i","r">>, <<"t","o","u","c","h">>, <<"c","p">>,
    <<"m","v">>, <<"r","m">>, <<"c","h","m","o","d">>,
    <<"c","h","o","w","n">>, <<"p","y","t","h","o","n">>, <<"p","y","t","h","o","n","3">>,
    <<"p","i","p">>, <<"g","i","t">>, <<"d","o","c","k","e","r">>,
    <<"n","p","m">>, <<"n","o","d","e">>, <<"e","c","h","o">>,
    <<"c","u","r","l">>, <<"w","g","e","t">> }

\* The lists the guards scan, in the order they scan them.
scr_dangerous_patterns ==
  <<
    <<"r","m"," ","-","r","f"," ","/">>, <<"m","k","f","s">>,
    <<"d","d">>, <<">"," ","/","d","e","v","/","s","d","a">>,
    <<"c","h","m","o","d"," ","7","7","7"," ","/">>, <<":","(",")","{"," ",":","|",":","&"," ","}",";",":">>,
    <<"f","o","r","k","(",")">>, <<"e","x","e","c","(">>,
    <<"s","y","s","t","e","m","(">>, <<"s","h","u","t","d","o","w","n">>,
    <<"r","e","b","o","o","t">>, <<"h","a","l","t">>,
    <<"p","o","w","e","r","o","f","f">> >>

src_dangerous_patterns ==
  <<
    <<"r","m"," ","-","r","f"," ","/">>, <<"m","k","f","s">>,
    <<"d","d">>, <<">"," ","/","d","e","v","/","s","d","a">>,
    <<":","(",")","{"," ",":","|",":","&"," ","}",";",":">>, <<"c","h","m","o","d"," ","7","7","7"," ","/">> >>

\* self.restricted_paths
restricted_paths ==
  <<
    <<"/","e","t","c">>, <<"/","r","o","o","t">>, <<"/","b","o","o","t">>,
    <<"/","p","r","o","c">>, <<"/","s","y","s">>, <<"/","v","a","r","/","l","i","b">>,
    <<"/","u","s","r","/","l","i","b">>, <<"/","l","i","b">>, <<"/","b","i","n">>,
    <<"/","s","b","i","n">> >>

(***************************************************************************)
(* The constructors.  allowed_commands is None (not given) or a list; the  *)
(* guards only test membership, so the list is kept as a set.              *)
(***************************************************************************)
NotGiven == [given |-> FALSE, list |-> {}]
Given(l) == [given |-> TRUE, list |-> l]

\* Python's truth value of the allowed_commands argument: None and the
\* empty list are both false.
Truthy(arg) == arg.given /\ arg.list # {}

\* self.allowed_commands = allowed_commands or [...]
scr_init_allowed_commands(arg) ==
    IF Truthy(arg) THEN arg.list ELSE scr_default_allowed_commands

src_init_allowed_commands(arg) ==
    IF Truthy(arg) THEN arg.list ELSE src_default_allowed_commands

init_allowed_commands(v, arg) ==
    IF v = "scr" THEN scr_init_allowed_commands(arg)
    ELSE src_init_allowed_commands(arg)

(***************************************************************************)
(* The command guards.                                                     *)
(***************************************************************************)
\* The first pattern of the list that cmd contains, 0 when there is none.
FirstMatch(patterns, cmd) ==
    IF \E k \in 1..Len(patterns) : Contains(cmd, patterns[k])
    THEN CHOOSE k \in 1..Len(patterns) :
            /\ Contains(cmd, patterns[k])
            /\ \A j \in 1..(k - 1) : ~Contains(cmd, patterns[j])
    ELSE 0

TraversalRoots == {<<"/","e","t","c">>, <<"/","r","o","o","t">>,
                   <<"/","b","o","o","t">>}

\* The patterns looked for in command itself, not in command.lower().
scr_pattern_hit_cased(command) == FirstMatch(scr_dangerous_patterns, command)

\* The patterns are looked for in cmd_lower = command.lower().
scr_pattern_hit(command) == FirstMatch(scr_dangerous_patterns, Lower(command))

\* ToolServer.is_safe_command of src/scr/tool_server.py: (safe, message).
is_safe_command(allowed, command) ==
    LET sp == shlex_split(command) IN
    IF ~sp.ok
    THEN [safe |-> FALSE, text |-> "Command parsing error: ", arg |-> <<sp.error>>]
    ELSE IF sp.parts = <<>>
    THEN [safe |-> FALSE, text |-> "Empty command", arg |-> <<>>]
    ELSE LET base_cmd == LastSegment(sp.parts[1])
             hit == scr_pattern_hit(command)
         IN
         IF base_cmd \notin allowed
         THEN [safe |-> FALSE, text |-> "Command not in allowed list",
               arg |-> base_cmd]
         ELSE IF hit # 0
         THEN [safe |-> FALSE, text |-> "Command contains dangerous pattern: ",
               arg |-> scr_dangerous_patterns[hit]]
         ELSE IF /\ Contains(command, <<".", ".">>)
                 /\ \E x \in TraversalRoots : Contains(command, x)
         THEN [safe |-> FALSE, text |-> "Path traversal attempt detected",
               arg |-> <<>>]
         ELSE [safe |-> TRUE, text |-> "OK", arg |-> <<>>]

src_pattern_hit(command) == FirstMatch(src_dangerous_patterns, Lower(command))

\* ToolServer._is_safe_command of src/src/tool_server.py: a bare bool.
_is_safe_command(allowed, command) ==
    LET sp == shlex_split(command) IN
    IF ~sp.ok THEN FALSE
    ELSE IF sp.parts = <<>> THEN FALSE
    ELSE LET base_cmd == LastSegment(sp.parts[1]) IN
         IF base_cmd \notin allowed THEN FALSE
         ELSE IF src_pattern_hit(command) # 0 THEN FALSE
         ELSE TRUE

\* The guard of the constructed variant, as a bool.
GuardSafe(v, allowed, command) ==
    IF v = "scr" THEN is_safe_command(allowed, command).safe
    ELSE _is_safe_command(allowed, command)

(***************************************************************************)
(* The filesystem.  A location is a canonical absolute path: the sequence  *)
(* of its component names, <<>> being "/".  A path argument is a sequence  *)
(* of components that may hold ".." and "." and may pass through symbolic  *)
(* links; all path arguments are absolute.                                 *)
(***************************************************************************)
DotDot == <<".", ".">>
Dot == <<".">>

Dir == [kind |-> "dir"]
File(content) == [kind |-> "file", content |-> content]
Link(target) == [kind |-> "link", target |-> target]

\* File content: text, followed by pad filler bytes that stand for the bulk
\* of a large file.
Content(text, pad) == [text |-> text, pad |-> pad]
ContentLen(c) == Len(c.text) + c.pad

Parent(loc) == IF loc = <<>> THEN <<>> ELSE SubSeq(loc, 1, Len(loc) - 1)

\* loc is root or lies in the subtree of root.
Under(loc, root) ==
    /\ Len(root) <= Len(loc)
    /\ SubSeq(loc, 1, Len(root)) = root

Exists(f, loc) == loc \in DOMAIN f
IsDir(f, loc) == Exists(f, loc) /\ f[loc].kind = "dir"
IsFile(f, loc) == Exists(f, loc) /\ f[loc].kind = "file"

\* str(path) of a location.
RECURSIVE Str(_)
Str(loc) ==
    IF loc = <<>> THEN <<"/">>
    ELSE IF Len(loc) = 1 THEN <<"/">> \o loc[1]
    ELSE Str(Parent(loc)) \o <<"/">> \o loc[Len(loc)]

\* Path(path).exists(): the operating system walks the path, so every
\* component on the way, those before a ".." included, has to be an existing
\* directory, and the final one has to exist.
RECURSIVE ExistsFrom(_, _, _)
ExistsFrom(f, cur, rest) ==
    IF rest = <<>> THEN Exists(f, cur)
    ELSE IF ~IsDir(f, cur) THEN FALSE
    ELSE LET c == Head(rest)
             nxt == Append(cur, c)
         IN  IF c = DotDot THEN ExistsFrom(f, Parent(cur), Tail(rest))
             ELSE IF c = Dot THEN ExistsFrom(f, cur, Tail(rest))
             ELSE IF Exists(f, nxt) /\ f[nxt].kind = "link"
             THEN ExistsFrom(f, f[nxt].target, Tail(rest))
             ELSE ExistsFrom(f, nxt, Tail(rest))

PathExists(f, path) == ExistsFrom(f, <<>>, path)

\* Path(path).resolve(): ".." and "." are folded and every symbolic link on
\* the way is followed; components that do not exist are kept as they are.
RECURSIVE ResolveFrom(_, _, _)
ResolveFrom(f, cur, rest) ==
    IF rest = <<>> THEN cur
    ELSE LET c == Head(rest)
             nxt == Append(cur, c)
         IN  IF c = DotDot THEN ResolveFrom(f, Parent(cur), Tail(rest))
             ELSE IF c = Dot THEN ResolveFrom(f, cur, Tail(rest))
             ELSE IF Exists(f, nxt) /\ f[nxt].kind = "link"
             THEN ResolveFrom(f, f[nxt].target, Tail(rest))
             ELSE ResolveFrom(f, nxt, Tail(rest))

\* A resolve() that gives up on a path that does not exist.
Resolve_existing(f, path) ==
    IF PathExists(f, path) THEN ResolveFrom(f, <<>>, path) ELSE <<>>

Resolve(f, path) == ResolveFrom(f, <<>>, path)

\* Path.mkdir(parents=True, exist_ok=True): the missing ancestors and the
\* directory are created; an existing file in the way raises.
RECURSIVE MkdirP(_, _)
MkdirP(f, loc) ==
    IF Exists(f, loc)
    THEN IF IsDir(f, loc)
         THEN [ok |-> TRUE, err |-> "", fs |-> f, created |-> {}]
         ELSE [ok |-> FALSE, err |-> "FileExistsError", fs |-> f, created |-> {}]
    ELSE IF Exists(f, Parent(loc)) /\ ~IsDir(f, Parent(loc))
    THEN [ok |-> FALSE, err |-> "NotADirectoryError", fs |-> f, created |-> {}]
    ELSE LET up == MkdirP(f, Parent(loc)) IN
         IF ~up.ok THEN up
         ELSE [ok |-> TRUE, err |-> "",
               fs |-> (loc :> Dir) @@ up.fs,
               created |-> up.created \cup {loc}]

\* Path.write_text / write_bytes: the file is created or replaced.
WriteFile(f, loc, content) ==
    IF IsDir(f, loc)
    THEN [ok |-> FALSE, err |-> "IsADirectoryError", fs |-> f]
    ELSE IF ~Exists(f, Parent(loc))
    THEN [ok |-> FALSE, err |-> "FileNotFoundError", fs |-> f]
    ELSE IF ~IsDir(f, Parent(loc))
    THEN [ok |-> FALSE, err |-> "NotADirectoryError", fs |-> f]
    ELSE [ok |-> TRUE, err |-> "", fs |-> (loc :> File(content)) @@ f]

\* The locations directly inside a directory, and all those below it.
Children(f, loc) == {l \in DOMAIN f : l # <<>> /\ Parent(l) = loc}
Descendants(f, loc) == {l \in DOMAIN f : l # loc /\ Under(l, loc)}

\* The filesystem without loc and everything below it.
Remove(f, loc) ==
    [l \in DOMAIN f \ ({loc} \cup Descendants(f, loc)) |-> f[l]]

\* read_text(): bytes decoded as text with universal newlines, "\r\n" and
\* "\r" both read as "\n".
RECURSIVE UniversalNewlines(_)
UniversalNewlines(t) ==
    IF t = <<>> THEN <<>>
    ELSE IF Head(t) = "\r"
    THEN IF Len(t) >= 2 /\ t[2] = "\n"
         THEN <<"\n">> \o UniversalNewlines(SubSeq(t, 3, Len(t)))
         ELSE <<"\n">> \o UniversalNewlines(Tail(t))
    ELSE <<Head(t)>> \o UniversalNewlines(Tail(t))

read_text(c) == Content(UniversalNewlines(c.text), c.pad)

(***************************************************************************)
(* The configuration of the model's tool server and the initial files.     *)
(***************************************************************************)
\* The names of the files and directories of the model.
N ==
    [ws |-> <<"w", "s">>,
     ws2 |-> <<"w", "s", "2">>,
     etc |-> <<"e", "t", "c">>,
     home |-> <<"h", "o", "m", "e">>,
     passwd |-> <<"p", "a", "s", "s", "w", "d">>,
     f |-> <<"f">>,
     d |-> <<"d">>,
     g |-> <<"g">>,
     x |-> <<"x">>,
     root |-> <<"r","o","o","t">>,
     sub |-> <<"s","u","b">>,
     out |-> <<"o","u","t">>,
     lnk |-> <<"l", "n", "k">>]

\* workspace_dir: "/ws"
WorkspaceDir == <<N.ws>>

\* self.max_file_size = 10 * 1024 * 1024
max_file_size == 10485760

SmallA == Content(<<"a">>, 0)
SmallB == Content(<<"b", "\r", "\n">>, 0)
Secret == Content(<<"s">>, 0)
TooLarge == Content(<<"a">>, max_file_size)

InitFS ==
    (<<>> :> Dir)
    @@ (<<N.ws>> :> Dir)
    @@ (<<N.ws, N.f>> :> File(SmallA))
    @@ (<<N.ws, N.lnk>> :> Link(<<N.etc>>))
    @@ (<<N.ws, N.sub>> :> Dir)
    @@ (<<N.ws, N.sub, N.out>> :> Link(<<N.etc>>))
    @@ (<<N.ws2>> :> Dir)
    @@ (<<N.ws2, N.x>> :> File(Secret))
    @@ (<<N.ws2, N.root>> :> Link(<<N.ws>>))
    @@ (<<N.etc>> :> Dir)
    @@ (<<N.etc, N.passwd>> :> File(Secret))
    @@ (<<N.home>> :> Dir)

(***************************************************************************)
(* The path guard of src/scr/tool_server.py.                               *)
(***************************************************************************)
\* The first restricted prefix that s starts with, 0 when there is none.
RestrictedHit(s) ==
    IF \E k \in 1..Len(restricted_paths) : StartsWith(s, restricted_paths[k])
    THEN CHOOSE k \in 1..Len(restricted_paths) :
            /\ StartsWith(s, restricted_paths[k])
            /\ \A j \in 1..(k - 1) : ~StartsWith(s, restricted_paths[j])
    ELSE 0

\* str(resolved).startswith(str(self.workspace_dir))
InWorkspaceText(resolved) == StartsWith(Str(resolved), Str(WorkspaceDir))

\* ToolServer.is_safe_path: (safe, message).
is_safe_path(f, path) ==
    LET resolved == Resolve(f, path)
        hit == RestrictedHit(Str(resolved))
    IN  IF hit # 0
        THEN [safe |-> FALSE, text |-> "Path is in restricted area: ",
              arg |-> restricted_paths[hit]]
        ELSE IF Contains(Str(resolved), DotDot) /\ ~InWorkspaceText(resolved)
        THEN [safe |-> FALSE, text |-> "Path traversal outside workspace",
              arg |-> <<>>]
        ELSE IF ~InWorkspaceText(resolved)
        THEN [safe |-> FALSE, text |-> "Can only write to workspace",
              arg |-> <<>>]
        ELSE [safe |-> TRUE, text |-> "OK", arg |-> <<>>]

(***************************************************************************)
(* Inputs.                                                                 *)
(***************************************************************************)
Variants == {"scr", "src"}

S_ls == <<"l", "s">>
S_sh == <<"s", "h">>
S_echo == <<"e", "c", "h", "o">>

\* The allowed_commands arguments a tool server is constructed with: none,
\* the empty list (what the agent's startup passes when its configuration
\* has no allowed_commands entry), and two lists.
AllowConfigs == {NotGiven, Given({}), Given({S_ls}), Given({S_ls, S_echo})}

\* The pieces commands are put together from.
CmdAtoms == {S_ls, S_sh, <<" ">>, <<"/">>, <<" ", ";">>, <<"|">>,
             <<"d", "d">>, <<"D", "D">>, <<"'">>, <<".", ".">>}

RECURSIVE CommandsOfLen(_)
CommandsOfLen(n) ==
    IF n = 0 THEN {<<>>}
    ELSE {a \o c : a \in CmdAtoms, c \in CommandsOfLen(n - 1)}

\* and an allow-listed name in other letter case, alone and with an argument,
\* and a listing of /etc/..
Commands ==
    UNION {CommandsOfLen(n) : n \in 0..MaxAtoms}
        \cup {<<"L", "S">>, <<"L", "s", " ", "/">>,
              <<"l", "s", " ", "/", "e", "t", "c", "/", ".", ".">>}

NoCall == [op |-> "none"]
NoResult == [none |-> TRUE]
NoProc == [status |-> "none", elapsed |-> 0, limit |-> 0]

\* SystemMonitor.__init__: not monitoring, no thread; no loop was started.
\* caller is where the thread that calls start and stop is.
NoMonitor ==
    [monitoring |-> FALSE, thread |-> 0, caller |-> "idle",
     loops |-> [t \in 1..MaxThreads |-> "unstarted"]]

\* CostTracker.__init__: empty tables and an empty cache.  usage is the
\* usage table, a row [date, user] per tracked call; daily is the
\* daily_summary table, date -> total_requests (0: no row); cache holds the
\* request count of each cached summary (-1: not cached); now is the day of
\* the clock; returned is what the last call returned.
Users == {"u", "v"}
CacheKeys ==
    {<<"daily", d>> : d \in 1..MaxDay} \cup {<<"monthly">>}
        \cup {<<"user", u>> : u \in Users}
NoTracker ==
    [now |-> 1,
     usage |-> <<>>,
     daily |-> [d \in 1..MaxDay |-> 0],
     cache |-> [k \in CacheKeys |-> -1],
     returned |-> [kind |-> "none"]]

\* The state after construction, with no call made yet.
\* The endpoints of docker_main_agent.py that take part: /execute runs a
\* command, /chat runs the 'shell' tool calls of the LLM's answer, /health
\* runs no command.
Endpoints == {"/execute", "/chat", "/health"}

\* No request has been received.
NoRequests == [e \in Endpoints |-> [status |-> "none"]]

\* No write_file call has just returned.
NoWrite == [some |-> FALSE]

Constructed ==
    /\ variant \in Variants
    /\ cfg_allowed \in AllowConfigs
    /\ allowed_commands = init_allowed_commands(variant, cfg_allowed)
    /\ timeout = ConfiguredTimeout
    /\ fs = InitFS
    /\ pc = "idle"
    /\ result = NoResult
    /\ touched = {}
    /\ spawned = <<>>
    /\ proc = NoProc
    /\ nops = 0
    /\ last_write = NoWrite
    /\ requests = NoRequests
    /\ monitor = NoMonitor
    /\ tracker = NoTracker

(***************************************************************************)
(* The command guards alone: Init draws the command, the action applies    *)
(* the guard of the constructed variant to it.                             *)
(***************************************************************************)
InitCmd ==
    /\ Constructed
    /\ \E c \in Commands : call = [op |-> "is_safe_command", command |-> c]

CheckCommand_scr ==
    /\ variant = "scr"
    /\ pc = "idle"
    /\ call.op = "is_safe_command"
    /\ result' = is_safe_command(allowed_commands, call.command)
    /\ pc' = "done"
    /\ UNCHANGED <<monitor, tracker, variant, cfg_allowed, allowed_commands, timeout,
                   last_write, requests, fs, call, touched, spawned, proc, nops>>

CheckCommand_src ==
    /\ variant = "src"
    /\ pc = "idle"
    /\ call.op = "is_safe_command"
    /\ result' = [safe |-> _is_safe_command(allowed_commands, call.command)]
    /\ pc' = "done"
    /\ UNCHANGED <<monitor, tracker, variant, cfg_allowed, allowed_commands, timeout,
                   last_write, requests, fs, call, touched, spawned, proc, nops>>

NextCmd == CheckCommand_scr \/ CheckCommand_src

SpecCmd == InitCmd /\ [][NextCmd]_vars

(***************************************************************************)
(* Arguments of the tool server's calls.                                   *)
(***************************************************************************)
\* An optional argument: None, or a value.
None == [some |-> FALSE]
Some(v) == [some |-> TRUE, val |-> v]

\* Commands passed to the executors: an allow-listed one, one that is on no
\* allow-list, one with a dangerous pattern behind an allow-listed leading
\* token, and one that shlex cannot split.
ExecCommands == {S_ls, S_sh, S_ls \o <<";">> \o <<"d", "d">>, <<"'">> \o S_ls,
                 <<"r", "m", " ", "-", "r", "f", " ", "/">>, <<>>, <<" ">>}

\* The paths passed to the operations.
P ==
    [ws |-> <<N.ws>>,
     ws_f |-> <<N.ws, N.f>>,
     ws_d |-> <<N.ws, N.d>>,
     ws_d_g |-> <<N.ws, N.d, N.g>>,
     ws_f_g |-> <<N.ws, N.f, N.g>>,
     ws_up_etc_passwd |-> <<N.ws, DotDot, N.etc, N.passwd>>,
     ws_lnk_passwd |-> <<N.ws, N.lnk, N.passwd>>,
     ws2 |-> <<N.ws2>>,
     ws2_x |-> <<N.ws2, N.x>>,
     etc_x |-> <<N.etc, N.x>>,
     home_x |-> <<N.home, N.x>>,
     ws_dot |-> <<N.ws, Dot>>,
     ws_d_up |-> <<N.ws, N.d, DotDot>>,
     ws2_root |-> <<N.ws2, N.root>>,
     ws_sub |-> <<N.ws, N.sub>>,
     ws_sub_out_x |-> <<N.ws, N.sub, N.out, N.x>>]

\* Paths passed to the file operations.
PathArgs == {P.ws, P.ws_f, P.ws_d, P.ws_d_g, P.ws_f_g, P.ws_up_etc_passwd,
             P.ws_lnk_passwd, P.ws2_x, P.etc_x, P.home_x}

\* Paths passed to delete_path: those, other spellings of the workspace
\* directory ('.', '..', a symbolic link to it), a directory that holds a
\* symbolic link, and a path through that link.
DeletePaths ==
    PathArgs \cup {P.ws_dot, P.ws_d_up, P.ws2_root, P.ws_sub, P.ws_sub_out_x}

\* working_dir arguments of execute.
WorkingDirs == {None, Some(P.ws_d), Some(P.ws_f), Some(P.ws2), Some(P.etc_x)}

\* timeout arguments of execute.
Timeouts == {None} \cup {Some(t) : t \in 0..MaxTimeout}

Contents == {SmallA, SmallB, TooLarge}

(***************************************************************************)
(* execute.                                                                *)
(***************************************************************************)
Message(text, arg) == [text |-> text, arg |-> arg]

\* self.timeout whatever the caller passes.
EffectiveTimeout_default_only(tmo, self_timeout) == self_timeout

\* timeout or self.timeout
EffectiveTimeout(tmo, self_timeout) ==
    IF tmo.some /\ tmo.val # 0 THEN tmo.val ELSE self_timeout

Running(limit) == [status |-> "running", elapsed |-> 0, limit |-> limit]

\* The frame of a call that ends at once without touching the filesystem.
Rejected(c, r) ==
    /\ call' = c
    /\ result' = r
    /\ pc' = "done"
    /\ touched' = {}
    /\ spawned' = <<>>
    /\ UNCHANGED <<monitor, tracker, variant, cfg_allowed, allowed_commands, timeout,
                   last_write, requests, fs, proc, nops>>

\* The frame of a call that ends at once, having changed the filesystem to f
\* and accessed the locations t.
Finished(c, r, f, t) ==
    /\ call' = c
    /\ result' = r
    /\ pc' = "done"
    /\ fs' = f
    /\ touched' = t
    /\ spawned' = <<>>
    /\ UNCHANGED <<monitor, tracker, variant, cfg_allowed, allowed_commands, timeout,
                   last_write, requests, proc, nops>>

Touch(locs, how) == {[loc |-> l, how |-> how] : l \in locs}

\* subprocess.run(command, shell=True, cwd=cwd, timeout=limit): the call
\* either fails to start the process (OSError), or starts it and waits.
Spawn(c, command, cwd, limit, f, t, oserror) ==
    /\ call' = c
    /\ fs' = f
    /\ touched' = t
    /\ UNCHANGED <<monitor, tracker, variant, cfg_allowed, allowed_commands, timeout,
                   last_write, requests, nops>>
    /\ IF IsDir(f, cwd)
       THEN /\ spawned' = <<[command |-> command, cwd |-> cwd]>>
            /\ proc' = Running(limit)
            /\ result' = NoResult
            /\ pc' = "running"
       ELSE /\ spawned' = <<>>
            /\ proc' = NoProc
            /\ result' = oserror
            /\ pc' = "done"

\* ToolServer.execute of src/scr/tool_server.py, up to subprocess.run.
scr_execute(command, working_dir, tmo) ==
    /\ variant = "scr"
    /\ pc = "idle"
    /\ nops < MaxOps
    /\ LET c == [op |-> "execute", command |-> command,
                 working_dir |-> working_dir, timeout |-> tmo]
           cmd_ok == is_safe_command(allowed_commands, command)
           wd_ok == is_safe_path(fs, working_dir.val)
           cwd == IF working_dir.some THEN Resolve(fs, working_dir.val)
                  ELSE WorkspaceDir
           mk == MkdirP(fs, cwd)
           failure(text, arg, code) ==
               [success |-> FALSE, stdout |-> "", stderr |-> Message(text, arg),
                return_code |-> code, execution_time |-> 0]
       IN  IF ~cmd_ok.safe
           THEN Rejected(c, failure("Security violation: ", cmd_ok, 1))
           ELSE IF working_dir.some /\ ~wd_ok.safe
           THEN Rejected(c, failure("Invalid working directory: ", wd_ok, 1))
           ELSE IF working_dir.some /\ ~mk.ok
           THEN \* cwd.mkdir is outside the try block
                Finished(c, [raised |-> mk.err], mk.fs, Touch(mk.created, "create"))
           ELSE LET f == IF working_dir.some THEN mk.fs ELSE fs
                    t == IF working_dir.some THEN Touch(mk.created, "create")
                         ELSE {}
                IN  Spawn(c, command, cwd, EffectiveTimeout(tmo, timeout), f, t,
                          failure("Execution error: ", <<"OSError">>, -1))

\* ToolServer.execute of src/src/tool_server.py, up to subprocess.run.
src_execute(command, working_dir, tmo) ==
    /\ variant = "src"
    /\ pc = "idle"
    /\ nops < MaxOps
    /\ LET c == [op |-> "execute", command |-> command,
                 working_dir |-> working_dir, timeout |-> tmo]
           cwd == IF working_dir.some THEN Resolve(fs, working_dir.val)
                  ELSE WorkspaceDir
           mk == MkdirP(fs, cwd)
       IN  IF ~_is_safe_command(allowed_commands, command)
           THEN Rejected(c, [success |-> FALSE, stdout |-> "",
                             stderr |-> Message("Command not allowed", <<>>),
                             return_code |-> -1, execution_time |-> 0])
           ELSE IF ~mk.ok
           THEN \* Path(cwd).mkdir is outside the try block
                Finished(c, [raised |-> mk.err], mk.fs, Touch(mk.created, "create"))
           ELSE Spawn(c, command, cwd, EffectiveTimeout(tmo, timeout), mk.fs,
                      Touch(mk.created, "create"),
                      [success |-> FALSE, stdout |-> "",
                       stderr |-> Message("OSError", <<>>),
                       return_code |-> -1, execution_time |-> 0])

(***************************************************************************)
(* DockerAIAgent of src/src/tool_server.py.                                *)
(***************************************************************************)
\* subprocess.run(..., timeout=30) in execute_safe
execute_safe_timeout == 30

\* The directory the agent process runs in, which execute_safe inherits.
ProcessCwd == <<>>

S_docker_exec == <<"d","o","c","k","e","r"," ","e","x","e","c"," ">>
S_web == <<"w", "e", "b">>

\* command arguments of execute_safe and execute_in_container.
DockerCommands == {S_ls, S_sh}

\* container arguments of execute_in_container.
Containers == {None, Some(S_web)}

\* DockerAIAgent.execute_safe, up to subprocess.run: no guard is consulted.
execute_safe_call(c, command) ==
    /\ variant = "src"
    /\ pc = "idle"
    /\ nops < MaxOps
    /\ Spawn(c, command, ProcessCwd, execute_safe_timeout, fs, {},
             [success |-> FALSE, stdout |-> "",
              stderr |-> Message("OSError", <<>>), return_code |-> -1])

execute_safe(command) ==
    execute_safe_call([op |-> "execute_safe", command |-> command], command)

\* DockerAIAgent.execute_in_container: f"docker exec {container} {command}"
\* with a container, the command itself without one.
execute_in_container(command, container) ==
    execute_safe_call(
        [op |-> "execute_in_container", command |-> command,
         container |-> container],
        IF container.some
        THEN S_docker_exec \o container.val \o <<" ">> \o command
        ELSE command)

(***************************************************************************)
(* Inside subprocess.run: the clock, the child's exit, the timeout.        *)
(***************************************************************************)
\* A second passes while the child runs; run() waits no longer than limit.
Tick ==
    /\ pc = "running"
    /\ proc.elapsed < proc.limit
    /\ proc' = [proc EXCEPT !.elapsed = @ + 1]
    /\ UNCHANGED <<monitor, tracker, variant, cfg_allowed, allowed_commands, timeout,
                   last_write, requests, fs, pc, call, result, touched, spawned, nops>>

\* What execute returns after subprocess.run returned with exit code rc.
CompletedResult(v, c, rc, elapsed, cwd) ==
    IF c.op # "execute"
    THEN [success |-> rc = 0, stdout |-> "<stdout>",
          stderr |-> Message("<stderr>", <<>>), return_code |-> rc]
    ELSE IF v = "scr"
    THEN [success |-> rc = 0, stdout |-> "<stdout>",
          stderr |-> Message("<stderr>", <<>>), return_code |-> rc,
          execution_time |-> elapsed, working_dir |-> Str(cwd)]
    ELSE [success |-> rc = 0, stdout |-> "<stdout>",
          stderr |-> Message("<stderr>", <<>>), return_code |-> rc,
          execution_time |-> elapsed]

\* What execute returns from its except subprocess.TimeoutExpired clause.
TimeoutResult(v, c, elapsed, limit) ==
    IF c.op # "execute"
    THEN [success |-> FALSE, stdout |-> "",
          stderr |-> Message("Command timed out", <<>>), return_code |-> -1]
    ELSE [success |-> FALSE, stdout |-> "",
          stderr |-> Message(IF v = "scr"
                             THEN "Command timed out after {} seconds"
                             ELSE "Command timed out after {}s", <<limit>>),
          return_code |-> -1, execution_time |-> elapsed]

\* The child exits with code rc before run() gave up on it.
ProcessExits(rc) ==
    /\ pc = "running"
    /\ result' = CompletedResult(variant, call, rc, proc.elapsed, spawned[1].cwd)
    /\ proc' = [proc EXCEPT !.status = "exited"]
    /\ pc' = "done"
    /\ UNCHANGED <<monitor, tracker, variant, cfg_allowed, allowed_commands, timeout,
                   last_write, requests, fs, call, touched, spawned, nops>>

\* The child is still running when the timeout expires: run() kills it and
\* raises TimeoutExpired.
TimeoutExpired ==
    /\ pc = "running"
    /\ proc.elapsed = proc.limit
    /\ result' = TimeoutResult(variant, call, proc.elapsed, proc.limit)
    /\ proc' = [proc EXCEPT !.status = "killed"]
    /\ pc' = "done"
    /\ UNCHANGED <<monitor, tracker, variant, cfg_allowed, allowed_commands, timeout,
                   last_write, requests, fs, call, touched, spawned, nops>>

\* What a returned call leaves to the next one: the path and content of a
\* write_file call that reported no failure, nothing otherwise.
LastWrite(c, r) ==
    IF /\ c.op = "write_file"
       /\ "raised" \notin DOMAIN r
       /\ "error" \notin DOMAIN r
    THEN [some |-> TRUE, path |-> c.path, content |-> c.content]
    ELSE NoWrite

\* The caller takes the result; the next call can be made.
Return ==
    /\ pc = "done"
    /\ call.op # "is_safe_command"
    /\ pc' = "idle"
    /\ call' = NoCall
    /\ result' = NoResult
    /\ touched' = {}
    /\ spawned' = <<>>
    /\ proc' = NoProc
    /\ nops' = nops + 1
    /\ last_write' = LastWrite(call, result)
    /\ UNCHANGED <<monitor, tracker, variant, cfg_allowed, allowed_commands, timeout, fs,
                   requests>>

(***************************************************************************)
(* Ordering of text, as Python's sorted() compares str: by code point,     *)
(* character by character, a proper prefix first.                          *)
(***************************************************************************)
AsciiOrder == <<"\t", "\n", "\r", " ", "\"", "&", "'", "(", ")", "*", "-", ".",
                "/", "0", "1", "2", "3", "4", "5", "6", "7", "8", "9", ":",
                ";", "<", ">",
                "A","B","C","D","E","F","G","H","I","J","K","L","M",
                "N","O","P","Q","R","S","T","U","V","W","X","Y","Z", "\\", "_",
                "a","b","c","d","e","f","g","h","i","j","k","l","m",
                "n","o","p","q","r","s","t","u","v","w","x","y","z",
                "{", "|", "}">>

Ord(c) == CHOOSE i \in 1..Len(AsciiOrder) : AsciiOrder[i] = c

RECURSIVE TextLess(_, _)
TextLess(s, t) ==
    IF t = <<>> THEN FALSE
    ELSE IF s = <<>> THEN TRUE
    ELSE IF Head(s) = Head(t) THEN TextLess(Tail(s), Tail(t))
    ELSE Ord(Head(s)) < Ord(Head(t))

\* Python's order of the sort keys (rank, text): by rank, then by text.
KeyLess(a, b) ==
    \/ a.rank < b.rank
    \/ a.rank = b.rank /\ TextLess(a.text, b.text)

\* sorted(items, key=...) of items [key, item] with distinct keys.
RECURSIVE SortedSeq(_)
SortedSeq(items) ==
    IF items = {} THEN <<>>
    ELSE LET first == CHOOSE a \in items :
                         \A b \in items \ {a} : KeyLess(a.key, b.key)
         IN  <<first.item>> \o SortedSeq(items \ {first})

\* The path argument as text, as str(Path(path)) gives it back.
RECURSIVE PathText(_)
PathText(path) ==
    IF path = <<>> THEN <<"/">>
    ELSE IF Len(path) = 1 THEN <<"/">> \o path[1]
    ELSE PathText(SubSeq(path, 1, Len(path) - 1)) \o <<"/">> \o path[Len(path)]

\* item.relative_to(self.workspace_dir): purely lexical; fails (ValueError)
\* unless the path's components start with the workspace's.
RelativeOk(path) == Under(path, WorkspaceDir)
RelativeTo(path) == SubSeq(path, Len(WorkspaceDir) + 1, Len(path))

\* Text of a relative path: its components joined by "/", "." when empty.
RECURSIVE RelText(_)
RelText(rel) ==
    IF rel = <<>> THEN <<".">>
    ELSE IF Len(rel) = 1 THEN rel[1]
    ELSE RelText(SubSeq(rel, 1, Len(rel) - 1)) \o <<"/">> \o rel[Len(rel)]

\* What a directory entry or a path leads to once links are followed:
\* the location itself, or the link's target.
Follow(f, loc) ==
    IF Exists(f, loc) /\ f[loc].kind = "link" THEN f[loc].target ELSE loc

EmptyContent == Content(<<>>, 0)

Failure(text, arg) == [success |-> FALSE, error |-> Message(text, arg)]

(***************************************************************************)
(* File operations of src/scr/tool_server.py.  Every one of them runs      *)
(* inside a try block whose except clause returns a failure result.        *)
(***************************************************************************)
\* ToolServer.read_file
scr_read_file(path) ==
    LET c == [op |-> "read_file", path |-> path]
        ok == is_safe_path(fs, path)
        loc == Resolve(fs, path)
        fail(text, arg) == [success |-> FALSE, error |-> Message(text, arg),
                            content |-> EmptyContent]
    IN  /\ variant = "scr" /\ pc = "idle" /\ nops < MaxOps
        /\ IF ~ok.safe
           THEN Rejected(c, fail(ok.text, ok.arg))
           ELSE IF ~PathExists(fs, path)
           THEN Finished(c, fail("File not found", <<>>), fs,
                         Touch({loc}, "stat"))
           ELSE IF IsFile(fs, loc) /\ ContentLen(fs[loc].content) > max_file_size
           THEN Finished(c, fail("File too large", <<>>), fs,
                         Touch({loc}, "stat"))
           ELSE IF IsDir(fs, loc)
           THEN Finished(c, fail("IsADirectoryError", <<>>), fs,
                         Touch({loc}, "stat"))
           ELSE LET content == read_text(fs[loc].content) IN
                Finished(c, [success |-> TRUE, content |-> content,
                             size |-> ContentLen(content),
                             is_binary |-> FALSE, encoding |-> "utf-8"],
                         fs, Touch({loc}, "stat") \cup Touch({loc}, "read"))

\* ToolServer.write_file after its path guard: Path(path) is used as given.
write_file_body(c, path, content) ==
    LET loc == Resolve(fs, path)
        mk == MkdirP(fs, Parent(loc))
        made == Touch(mk.created, "create")
        wr == WriteFile(mk.fs, loc, content)
    IN  IF ~mk.ok
        THEN Finished(c, Failure(mk.err, <<>>), fs, {})
        ELSE IF ContentLen(content) > max_file_size
        THEN \* the parent directories were made before the size check
             Finished(c, Failure("Content too large", <<>>), mk.fs, made)
        ELSE IF ~wr.ok
        THEN Finished(c, Failure(wr.err, <<>>), mk.fs, made)
        ELSE Finished(c, [success |-> TRUE, path |-> PathText(path),
                          size |-> ContentLen(content),
                          \* not file_path.exists(), after the write
                          created |-> ~Exists(wr.fs, loc)],
                      wr.fs,
                      made \cup Touch({loc}, IF Exists(fs, loc) THEN "modify"
                                             ELSE "create"))

\* ToolServer.write_file: the path guard, then the rest.
scr_write_file(path, content) ==
    LET c == [op |-> "write_file", path |-> path, content |-> content]
        ok == is_safe_path(fs, path)
    IN  /\ variant = "scr" /\ pc = "idle" /\ nops < MaxOps
        /\ IF ~ok.safe
           THEN Rejected(c, Failure(ok.text, ok.arg))
           ELSE write_file_body(c, path, content)

\* One entry of list_directory's listing, for the child at location l of the
\* directory given as path dirpath; entries that cannot be stat'ed, and those
\* whose path is not lexically under the workspace, are skipped.
EntryOk(f, dirpath, l) ==
    /\ Exists(f, Follow(f, l))
    /\ RelativeOk(Append(dirpath, l[Len(l)]))

Entry(f, dirpath, l) ==
    LET name == l[Len(l)]
        tgt == Follow(f, l)
    IN  [name |-> name,
         type |-> IF IsDir(f, tgt) THEN "directory" ELSE "file",
         size |-> IF IsFile(f, tgt) THEN ContentLen(f[tgt].content) ELSE 0,
         path |-> RelText(RelativeTo(Append(dirpath, name)))]

\* key=lambda x: (x["type"] == "directory", x["name"]); False sorts before
\* True.
ListingKey(e) == [rank |-> IF e.type = "directory" THEN 1 ELSE 0,
                  text |-> e.name]

Listing(f, dirpath, loc) ==
    SortedSeq({[key |-> ListingKey(Entry(f, dirpath, l)),
                item |-> Entry(f, dirpath, l)] :
               l \in {k \in Children(f, loc) : EntryOk(f, dirpath, k)}})

\* ToolServer.list_directory
scr_list_directory(path) ==
    LET c == [op |-> "list_directory", path |-> path]
        ok == is_safe_path(fs, path.val)
        dirpath == IF path.some THEN path.val ELSE WorkspaceDir
        loc == Resolve(fs, dirpath)
        fail(text, arg) == [success |-> FALSE, error |-> Message(text, arg),
                            files |-> <<>>]
        files == Listing(fs, dirpath, loc)
    IN  /\ variant = "scr" /\ pc = "idle" /\ nops < MaxOps
        /\ IF path.some /\ ~ok.safe
           THEN Rejected(c, fail(ok.text, ok.arg))
           ELSE IF ~PathExists(fs, dirpath)
           THEN Finished(c, fail("Directory not found", <<>>), fs,
                         Touch({loc}, "stat"))
           ELSE IF ~IsDir(fs, loc)
           THEN Finished(c, fail("Not a directory", <<>>), fs,
                         Touch({loc}, "stat"))
           ELSE Finished(c, [success |-> TRUE, path |-> PathText(dirpath),
                             files |-> files, count |-> Len(files)],
                         fs,
                         Touch({loc}, "list")
                         \cup Touch({Follow(fs, l) : l \in Children(fs, loc)},
                                    "stat"))

\* ToolServer.get_file_info
scr_get_file_info(path) ==
    LET c == [op |-> "get_file_info", path |-> path]
        ok == is_safe_path(fs, path)
        loc == Resolve(fs, path)
    IN  /\ variant = "scr" /\ pc = "idle" /\ nops < MaxOps
        /\ IF ~ok.safe
           THEN Rejected(c, Failure(ok.text, ok.arg))
           ELSE IF ~PathExists(fs, path)
           THEN Finished(c, Failure("File not found", <<>>), fs,
                         Touch({loc}, "stat"))
           ELSE Finished(c, [success |-> TRUE, name |-> path[Len(path)],
                             path |-> PathText(path),
                             type |-> IF IsDir(fs, loc) THEN "directory"
                                      ELSE "file",
                             size |-> IF IsFile(fs, loc)
                                      THEN ContentLen(fs[loc].content) ELSE 0,
                             absolute_path |-> Str(loc)],
                         fs, Touch({loc}, "stat"))

\* ToolServer.create_directory after its path guard.
create_directory_body(c, path) ==
    LET loc == Resolve(fs, path)
        mk == MkdirP(fs, loc)
    IN  IF ~mk.ok
        THEN Finished(c, Failure(mk.err, <<>>), fs, {})
        ELSE Finished(c, [success |-> TRUE, path |-> PathText(path),
                          created |-> TRUE,
                          message |-> Message("Directory created: ",
                                              PathText(path))],
                      mk.fs, Touch(mk.created, "create"))

\* ToolServer.create_directory: the path guard, then the rest.
scr_create_directory(path) ==
    LET c == [op |-> "create_directory", path |-> path]
        ok == is_safe_path(fs, path)
    IN  /\ variant = "scr" /\ pc = "idle" /\ nops < MaxOps
        /\ IF ~ok.safe
           THEN Rejected(c, Failure(ok.text, ok.arg))
           ELSE create_directory_body(c, path)

\* Path(path) as unlink, rmdir and rmtree reach it: the links on the way are
\* followed, a link in the final component is not.
Lstat(f, path) ==
    IF path = <<>> \/ path[Len(path)] \in {Dot, DotDot} THEN Resolve(f, path)
    ELSE Append(Resolve(f, SubSeq(path, 1, Len(path) - 1)), path[Len(path)])

\* The path compared with the workspace directory as it is spelled.
IsWorkspaceRoot_spelled(f, path) == path = WorkspaceDir

\* target_path.resolve() == self.workspace_dir.resolve()
IsWorkspaceRoot(f, path) == Resolve(f, path) = Resolve(f, WorkspaceDir)

\* ToolServer.delete_path after its path guard.
delete_path_body(c, path, recursive) ==
    LET loc == Resolve(fs, path)
        raw == Lstat(fs, path)
        is_link == Exists(fs, raw) /\ fs[raw].kind = "link"
        gone == {raw} \cup Descendants(fs, raw)
    IN  IF ~PathExists(fs, path)
        THEN Finished(c, Failure("Path not found", <<>>), fs,
                      Touch({loc}, "stat"))
        ELSE IF IsWorkspaceRoot(fs, path)
        THEN Finished(c, Failure("Cannot delete workspace root", <<>>), fs,
                      Touch({loc}, "stat"))
        ELSE IF IsDir(fs, loc) /\ is_link
        THEN \* rmtree and rmdir both refuse a symbolic link
             Finished(c, Failure(IF recursive THEN "OSError"
                                 ELSE "NotADirectoryError", <<>>),
                      fs, Touch({loc}, "stat"))
        ELSE IF IsDir(fs, loc) /\ ~recursive /\ Children(fs, loc) # {}
        THEN \* rmdir of a directory that is not empty
             Finished(c, Failure("OSError", <<>>), fs, Touch({loc}, "stat"))
        ELSE Finished(c, [success |-> TRUE, path |-> PathText(path),
                          deleted |-> TRUE,
                          message |-> Message("Deleted: ", PathText(path))],
                      Remove(fs, raw),
                      Touch({loc}, "stat") \cup Touch(gone, "delete"))

\* ToolServer.delete_path: the path guard, then the rest.
scr_delete_path(path, recursive) ==
    LET c == [op |-> "delete_path", path |-> path, recursive |-> recursive]
        ok == is_safe_path(fs, path)
    IN  /\ variant = "scr" /\ pc = "idle" /\ nops < MaxOps
        /\ IF ~ok.safe
           THEN Rejected(c, Failure(ok.text, ok.arg))
           ELSE delete_path_body(c, path, recursive)

\* Patterns of search_files: "*", and one file name.
Star == <<"*">>
Patterns == {Star, N.f}

\* Path.glob / Path.rglob of the pattern in the directory at loc: children,
\* or everything below, whose name the pattern matches.  Directories
\* behind symbolic links are not entered.
GlobMatches(f, loc, pattern, recursive) ==
    {l \in IF recursive THEN Descendants(f, loc) ELSE Children(f, loc) :
        pattern = Star \/ l[Len(l)] = pattern}

\* The path search_files builds for the match at l: the directory argument
\* followed by the names that lead from the directory to the match.
MatchPath(dirpath, loc, l) == dirpath \o SubSeq(l, Len(loc) + 1, Len(l))

SearchHit(f, dirpath, loc, l) ==
    [path |-> RelText(RelativeTo(MatchPath(dirpath, loc, l))),
     name |-> l[Len(l)],
     size |-> ContentLen(f[Follow(f, l)].content),
     absolute_path |-> PathText(MatchPath(dirpath, loc, l))]

SearchResults(f, dirpath, loc, pattern, recursive) ==
    SortedSeq({[key |-> [rank |-> 0, text |-> SearchHit(f, dirpath, loc, l).path],
                item |-> SearchHit(f, dirpath, loc, l)] :
               l \in {k \in GlobMatches(f, loc, pattern, recursive) :
                         /\ IsFile(f, Follow(f, k))
                         /\ RelativeOk(MatchPath(dirpath, loc, k))}})

\* ToolServer.search_files
scr_search_files(pattern, directory, recursive) ==
    LET c == [op |-> "search_files", pattern |-> pattern,
              directory |-> directory, recursive |-> recursive]
        ok == is_safe_path(fs, directory.val)
        dirpath == IF directory.some THEN directory.val ELSE WorkspaceDir
        loc == Resolve(fs, dirpath)
        results == SearchResults(fs, dirpath, loc, pattern, recursive)
        seen == GlobMatches(fs, loc, pattern, recursive)
    IN  /\ variant = "scr" /\ pc = "idle" /\ nops < MaxOps
        /\ IF directory.some /\ ~ok.safe
           THEN Rejected(c, [success |-> FALSE,
                             error |-> Message(ok.text, ok.arg),
                             results |-> <<>>])
           ELSE IF ~PathExists(fs, dirpath)
           THEN Finished(c, [success |-> FALSE,
                             error |-> Message("Directory not found", <<>>),
                             results |-> <<>>],
                         fs, Touch({loc}, "stat"))
           ELSE Finished(c, [success |-> TRUE, pattern |-> pattern,
                             directory |-> PathText(dirpath),
                             recursive |-> recursive,
                             results |-> results, count |-> Len(results)],
                         fs,
                         Touch({loc}, "list")
                         \cup Touch({Follow(fs, l) : l \in seen}, "stat"))

(***************************************************************************)
(* File operations of src/src/tool_server.py.  Path(path).resolve(), the   *)
(* directory listing and parent.mkdir run outside any try block.           *)
(***************************************************************************)
\* One entry of read_file's listing of a directory.
src_entry(f, l) ==
    LET tgt == Follow(f, l) IN
    [name |-> l[Len(l)],
     type |-> IF IsDir(f, tgt) THEN "directory" ELSE "file",
     size |-> IF IsFile(f, tgt) THEN ContentLen(f[tgt].content) ELSE 0]

\* ToolServer.read_file: no confinement check, only ".." in the resolved text.
src_read_file(path) ==
    LET c == [op |-> "read_file", path |-> path]
        safe_path == Resolve(fs, path)
    IN  /\ variant = "src" /\ pc = "idle" /\ nops < MaxOps
        /\ IF Contains(Str(safe_path), DotDot)
           THEN Rejected(c, [error |-> Message("Path traversal not allowed",
                                               <<>>)])
           ELSE IF ~Exists(fs, safe_path)
           THEN Finished(c, [error |-> Message("File not found", <<>>)], fs,
                         Touch({safe_path}, "stat"))
           ELSE IF IsDir(fs, safe_path)
           THEN Finished(c, [path |-> Str(safe_path),
                             files |-> {src_entry(fs, l) :
                                        l \in Children(fs, safe_path)}],
                         fs,
                         Touch({safe_path}, "list")
                         \cup Touch({Follow(fs, l) :
                                     l \in Children(fs, safe_path)}, "stat"))
           ELSE LET content == read_text(fs[safe_path].content) IN
                Finished(c, [path |-> Str(safe_path), content |-> content,
                             size |-> ContentLen(content)],
                         fs,
                         Touch({safe_path}, "stat")
                         \cup Touch({safe_path}, "read"))

\* str(safe_path).startswith(str(Path(self.workspace_dir).resolve()))
src_in_workspace(f, safe_path) ==
    StartsWith(Str(safe_path), Str(Resolve(f, WorkspaceDir)))

\* ToolServer.write_file
src_write_file(path, content) ==
    LET c == [op |-> "write_file", path |-> path, content |-> content]
        safe_path == Resolve(fs, path)
        mk == MkdirP(fs, Parent(safe_path))
        made == Touch(mk.created, "create")
        wr == WriteFile(mk.fs, safe_path, content)
    IN  /\ variant = "src" /\ pc = "idle" /\ nops < MaxOps
        /\ IF ~src_in_workspace(fs, safe_path)
           THEN Rejected(c, [error |-> Message("Can only write to workspace",
                                               <<>>)])
           ELSE IF ~mk.ok
           THEN \* safe_path.parent.mkdir is outside the try block
                Finished(c, [raised |-> mk.err], fs, {})
           ELSE IF ~wr.ok
           THEN Finished(c, [error |-> Message("Cannot write file: ",
                                               <<wr.err>>)],
                         mk.fs, made)
           ELSE Finished(c, [success |-> TRUE, path |-> Str(safe_path)],
                         wr.fs,
                         made \cup Touch({safe_path},
                                         IF Exists(fs, safe_path) THEN "modify"
                                         ELSE "create"))

\* The tool names of the gateway, and one that is none of them.
ToolNames ==
    {"shell", "read_file", "write_file", "list_directory", "get_file_info",
     "create_directory", "delete_path", "search_files", "browse"}

\* execute_tool of docker_main_agent.py, on the tool server it constructed.
execute_tool(tool_name) ==
    /\ variant = "src"
    /\ IF tool_name = "shell"
       THEN \E command \in ExecCommands, working_dir \in WorkingDirs,
               tmo \in Timeouts : src_execute(command, working_dir, tmo)
       ELSE IF tool_name = "read_file"
       THEN \E path \in PathArgs : src_read_file(path)
       ELSE IF tool_name = "write_file"
       THEN \E path \in PathArgs, content \in Contents :
               src_write_file(path, content)
       ELSE /\ pc = "idle"
            /\ nops < MaxOps
            /\ Rejected([op |-> "execute_tool", name |-> tool_name],
                        [error |-> Message("Unknown tool: ", tool_name)])

(***************************************************************************)
(* The tool server: calls are made one after another, each with arguments  *)
(* drawn from the sets above.                                              *)
(***************************************************************************)
Init ==
    /\ Constructed
    /\ call = NoCall

OptionalPaths == {None} \cup {Some(p) : p \in PathArgs}

Next ==
    \/ \E command \in ExecCommands, working_dir \in WorkingDirs,
          tmo \in Timeouts : scr_execute(command, working_dir, tmo)
    \/ \E command \in ExecCommands, working_dir \in WorkingDirs,
          tmo \in Timeouts : src_execute(command, working_dir, tmo)
    \/ \E command \in DockerCommands : execute_safe(command)
    \/ \E command \in DockerCommands, container \in Containers :
          execute_in_container(command, container)
    \/ Tick
    \/ \E rc \in {0, 1} : ProcessExits(rc)
    \/ TimeoutExpired
    \/ \E path \in PathArgs : scr_read_file(path)
    \/ \E path \in PathArgs, content \in Contents :
          scr_write_file(path, content)
    \/ \E path \in OptionalPaths : scr_list_directory(path)
    \/ \E path \in PathArgs : scr_get_file_info(path)
    \/ \E path \in PathArgs : scr_create_directory(path)
    \/ \E path \in DeletePaths, recursive \in BOOLEAN :
          scr_delete_path(path, recursive)
    \/ \E pattern \in Patterns, directory \in OptionalPaths,
          recursive \in BOOLEAN : scr_search_files(pattern, directory, recursive)
    \/ \E path \in PathArgs : src_read_file(path)
    \/ \E path \in PathArgs, content \in Contents :
          src_write_file(path, content)
    \/ \E tool_name \in ToolNames : execute_tool(tool_name)
    \/ Return

Spec == Init /\ [][Next]_vars


(***************************************************************************)
(* The agent of src/src/docker_main_agent.py.  uvicorn.run(app) serves the *)
(* application with one event loop on one thread.  Every endpoint is an    *)
(* `async def`, so its handler runs on that thread, and the thread takes   *)
(* up another request only when the running handler awaits something that  *)
(* suspends, or returns.  tool_server.execute is an ordinary function:     *)
(* subprocess.run blocks the thread until the child exits or the timeout   *)
(* expires.  `await execute_tool(...)` in /chat awaits a coroutine that     *)
(* never suspends, which changes nothing.                                  *)
(***************************************************************************)
\* The request whose handler the event loop thread is running, if any.
Handling == {e \in Endpoints : requests[e].status = "running"}

\* A request for endpoint e is received: the connection is accepted and the
\* request waits for the event loop.  tmo is CommandRequest.timeout.
Arrive(e, tmo) ==
    /\ variant = "src"
    /\ requests[e].status = "none"
    /\ e # "/execute" => tmo = None
    /\ requests' = [requests EXCEPT ![e] = [status |-> "pending", timeout |-> tmo]]
    /\ UNCHANGED <<monitor, tracker, variant, cfg_allowed, allowed_commands, timeout, fs, pc,
                   call, result, touched, spawned, proc, nops, last_write>>

\* timeout of the tool_server.execute call the handler of e makes: /execute
\* passes request.timeout or config["security"]["command_timeout"], the
\* 'shell' tool call of /chat passes the LLM's parameters, here no timeout.
HandlerTimeout(e) ==
    IF e = "/execute"
    THEN Some(EffectiveTimeout(requests[e].timeout, ConfiguredTimeout))
    ELSE None

\* The event loop thread starts the handler of the pending request e; the
\* handlers of /execute and /chat call tool_server.execute and the thread
\* is inside subprocess.run; the handler of /health returns at once.
StartHandler(e) ==
    /\ requests[e].status = "pending"
    /\ Handling = {}
    /\ IF e = "/health"
       THEN /\ requests' = [requests EXCEPT ![e].status = "served"]
            /\ UNCHANGED proc
       ELSE /\ requests' = [requests EXCEPT ![e].status = "running"]
            /\ proc' = Running(EffectiveTimeout(HandlerTimeout(e), timeout))
    /\ UNCHANGED <<monitor, tracker, variant, cfg_allowed, allowed_commands, timeout, fs, pc,
                   call, result, touched, spawned, nops, last_write>>

\* A second passes while the thread is inside subprocess.run.
HandlerWaits ==
    /\ Handling # {}
    /\ proc.elapsed < proc.limit
    /\ proc' = [proc EXCEPT !.elapsed = @ + 1]
    /\ UNCHANGED <<monitor, tracker, variant, cfg_allowed, allowed_commands, timeout, fs, pc,
                   call, result, touched, spawned, nops, last_write, requests>>

\* subprocess.run returns (the child exited) or raises TimeoutExpired (the
\* timeout expired); execute returns, the handler answers the request.
HandlerReturns(timed_out) ==
    /\ Handling # {}
    /\ timed_out => proc.elapsed = proc.limit
    /\ requests' = [e \in Endpoints |->
                      IF e \in Handling THEN [requests[e] EXCEPT !.status = "served"]
                      ELSE requests[e]]
    /\ proc' = NoProc
    /\ UNCHANGED <<monitor, tracker, variant, cfg_allowed, allowed_commands, timeout, fs, pc,
                   call, result, touched, spawned, nops, last_write>>

InitServer ==
    /\ Constructed
    /\ variant = "src"
    /\ call = NoCall

NextServer ==
    \/ \E e \in Endpoints, tmo \in Timeouts : Arrive(e, tmo)
    \/ \E e \in Endpoints : StartHandler(e)
    \/ HandlerWaits
    \/ \E timed_out \in BOOLEAN : HandlerReturns(timed_out)

SpecServer == InitServer /\ [][NextServer]_vars

(***************************************************************************)
(* The file operations of src/scr/tool_server.py with the workspace        *)
(* changing under them.  Each operation resolves the path in its guard     *)
(* (is_safe_path) and afterwards works on Path(path) as it was given, which *)
(* the operating system resolves again when the file is reached.  Nothing  *)
(* is locked in between, so another call or process can change the         *)
(* workspace after the guard has answered.                                 *)
(***************************************************************************)
\* The calls that change the filesystem, on paths inside the workspace.
ChangingCalls ==
    LET paths == {P.ws_f, P.ws_d, P.ws_d_g, P.ws_sub} IN
    {[op |-> "write_file", path |-> p, content |-> SmallB] : p \in paths}
    \cup {[op |-> "create_directory", path |-> p] : p \in paths}
    \cup {[op |-> "delete_path", path |-> p, recursive |-> r] :
            p \in paths, r \in BOOLEAN}

\* The operation's path guard; approved keeps the location it resolved.
CheckPath(c) ==
    LET ok == is_safe_path(fs, c.path) IN
    /\ variant = "scr" /\ pc = "idle" /\ nops < MaxOps
    /\ IF ~ok.safe
       THEN Rejected(c, Failure(ok.text, ok.arg))
       ELSE /\ call' = [approved |-> Resolve(fs, c.path)] @@ c
            /\ pc' = "checked"
            /\ UNCHANGED <<monitor, tracker, variant, cfg_allowed, allowed_commands, timeout,
                           last_write, requests, fs, result, touched, spawned,
                           proc, nops>>

\* The operation after its guard, on the filesystem as it is by then.
UsePath ==
    /\ pc = "checked"
    /\ IF call.op = "write_file"
       THEN write_file_body(call, call.path, call.content)
       ELSE IF call.op = "create_directory"
       THEN create_directory_body(call, call.path)
       ELSE delete_path_body(call, call.path, call.recursive)

\* Another call or process puts a symbolic link where a directory of the
\* workspace is or would be.
ReplaceBySymlink(dir, target) ==
    /\ pc \in {"idle", "checked"}
    /\ ~Exists(fs, dir) \/ IsDir(fs, dir)
    /\ fs' = (dir :> Link(target)) @@ Remove(fs, dir)
    /\ UNCHANGED <<monitor, tracker, variant, cfg_allowed, allowed_commands, timeout,
                   last_write, requests, pc, call, result, touched, spawned,
                   proc, nops>>

InitRace ==
    /\ Constructed
    /\ variant = "scr"
    /\ call = NoCall

NextRace ==
    \/ \E c \in ChangingCalls : CheckPath(c)
    \/ UsePath
    \/ \E dir \in {<<N.ws, N.d>>, <<N.ws, N.sub>>},
          target \in {<<N.etc>>, <<N.home>>} : ReplaceBySymlink(dir, target)
    \/ Return

SpecRace == InitRace /\ [][NextRace]_vars

(***************************************************************************)
(* SystemMonitor of src/src/system_monitor.py: start_monitoring and        *)
(* stop_monitoring, called from one thread, and the monitoring loops they  *)
(* start, each in a thread of its own.                                     *)
(***************************************************************************)
\* The state of the tool server, which the monitor and the tracker leave alone.
server == <<variant, cfg_allowed, allowed_commands, timeout, fs, pc, call,
            result, touched, spawned, proc, nops, last_write, requests>>

\* SystemMonitor.start_monitoring
start_monitoring ==
    /\ monitor.caller = "idle"
    /\ IF monitor.monitoring
       THEN UNCHANGED monitor
       ELSE \E t \in 1..MaxThreads :
               /\ monitor.loops[t] = "unstarted"
               /\ \A s \in 1..(t - 1) : monitor.loops[s] # "unstarted"
               /\ monitor' = [monitor EXCEPT !.monitoring = TRUE,
                                             !.thread = t,
                                             !.loops[t] = "check"]
    /\ UNCHANGED <<tracker, server>>

\* monitor_loop in thread t: the test of `while self.monitoring`, the
\* collection and logging of the data, and time.sleep(monitoring_interval).
monitor_loop(t) ==
    /\ monitor.loops[t] \in {"check", "collect", "sleep"}
    /\ monitor' = [monitor EXCEPT !.loops[t] =
                      IF @ = "check"
                      THEN IF monitor.monitoring THEN "collect" ELSE "exited"
                      ELSE IF @ = "collect" THEN "sleep"
                      ELSE "check"]
    /\ UNCHANGED <<tracker, server>>

\* SystemMonitor.stop_monitoring up to self.thread.join(timeout=10)
stop_monitoring ==
    /\ monitor.caller = "idle"
    /\ monitor' = [monitor EXCEPT !.monitoring = FALSE,
                                  !.caller = IF monitor.thread # 0
                                             THEN "joining" ELSE "idle"]
    /\ UNCHANGED <<tracker, server>>

\* join returns: the thread has ended, or the 10 seconds have passed with
\* the loop inside its sleep of monitoring_interval (60) seconds.
join_returns(timed_out) ==
    /\ monitor.caller = "joining"
    /\ monitor.loops[monitor.thread] = IF timed_out THEN "sleep" ELSE "exited"
    /\ monitor' = [monitor EXCEPT !.caller = "idle"]
    /\ UNCHANGED <<tracker, server>>

NextMonitor ==
    \/ start_monitoring
    \/ \E t \in 1..MaxThreads : monitor_loop(t)
    \/ stop_monitoring
    \/ \E timed_out \in BOOLEAN : join_returns(timed_out)

SpecMonitor == InitServer /\ [][NextMonitor]_vars

(***************************************************************************)
(* CostTracker of src/src/cost_tracker.py: track_usage and the summaries,  *)
(* called one after another on one tracker.  All days of the clock lie in  *)
(* one month and within the period of the user summary.                    *)
(***************************************************************************)
\* A summary call: the cached value while _is_cache_valid(key) holds (the
\* key is cached and its expiry lies ahead), else the value computed from
\* the database, which is cached.
Summary(kind, key, expired, computed) ==
    LET hit == tracker.cache[key] # -1 /\ ~expired
        value == IF hit THEN tracker.cache[key] ELSE computed
    IN  /\ tracker' = [tracker EXCEPT
                          !.cache[key] = value,
                          !.returned = [kind |-> kind, key |-> key,
                                        requests |-> value]]
        /\ UNCHANGED <<monitor, server>>

\* CostTracker.track_usage: the usage row is stamped with one reading of
\* the clock (day ts), the daily_summary row is chosen by a later one (day
\* today); the cache is cleared.
track_usage(user, ts, today) ==
    /\ Len(tracker.usage) < MaxRows
    /\ tracker.now <= ts /\ ts <= today
    /\ tracker' = [tracker EXCEPT
                      !.now = today,
                      !.usage = Append(@, [date |-> ts, user |-> user]),
                      !.daily[today] = @ + 1,
                      !.cache = [k \in CacheKeys |-> -1],
                      !.returned = [kind |-> "usage", date |-> ts,
                                    user |-> user]]
    /\ UNCHANGED <<monitor, server>>

\* CostTracker.get_daily_summary: total_requests of the daily_summary row.
get_daily_summary(date, expired) ==
    Summary("daily", <<"daily", date>>, expired, tracker.daily[date])

\* CostTracker.get_monthly_summary: COUNT(*) of the usage rows of the month.
get_monthly_summary(expired) ==
    Summary("monthly", <<"monthly">>, expired, Len(tracker.usage))

\* CostTracker.get_user_summary: COUNT(*) of the usage rows of the user.
get_user_summary(user, expired) ==
    Summary("user", <<"user", user>>, expired,
            Len(SelectSeq(tracker.usage, LAMBDA r : r.user = user)))

NextTracker ==
    \/ \E user \in Users, ts \in 1..MaxDay, today \in 1..MaxDay :
          track_usage(user, ts, today)
    \/ \E date \in 1..MaxDay, expired \in BOOLEAN :
          get_daily_summary(date, expired)
    \/ \E expired \in BOOLEAN : get_monthly_summary(expired)
    \/ \E user \in Users, expired \in BOOLEAN : get_user_summary(user, expired)

SpecTracker == InitServer /\ [][NextTracker]_vars
(***************************************************************************)
(* Properties.                                                             *)
(***************************************************************************)
GuardDone == pc = "done" /\ call.op = "is_safe_command"

\* The final path component of a token: its longest suffix without a "/".
BaseName(tok) ==
    LET k == CHOOSE i \in 0..Len(tok) :
                 /\ \A j \in (i + 1)..Len(tok) : tok[j] # "/"
                 /\ (i = 0 \/ tok[i] = "/")
    IN  SubSeq(tok, k + 1, Len(tok))

\* The command has a leading token, and its base name is not in the list.
LeadingTokenOutside(command, list) ==
    LET sp == shlex_split(command) IN
    /\ sp.ok
    /\ sp.parts # <<>>
    /\ BaseName(sp.parts[1]) \notin list

\* C1: whenever the command guard of either variant has decided a command
\* whose leading token, stripped of its directory prefix, is not in the
\* allow-list the guard reads (self.allowed_commands), the decision is
\* unsafe, whatever else the command holds.
C1_NotAllowListedIsUnsafe ==
    (GuardDone /\ LeadingTokenOutside(call.command, allowed_commands))
        => ~result.safe

\* C1 witness: "sh ls" is decided unsafe under an allow-list that holds the
\* argument "ls" but not the leading token "sh".
C1_Witness ==
    /\ GuardDone
    /\ call.command = S_sh \o <<" ">> \o S_ls
    /\ S_ls \in allowed_commands
    /\ LeadingTokenOutside(call.command, allowed_commands)
    /\ ~result.safe

\* The list of patterns the guard of a variant scans.
DangerPatterns(v) ==
    IF v = "scr" THEN scr_dangerous_patterns ELSE src_dangerous_patterns

\* command holds pattern somewhere, letter case ignored.
ContainsIgnoringCase(command, pattern) ==
    \E k \in 0..(Len(command) - Len(pattern)) :
        \A i \in 1..Len(pattern) :
            LowerChar(command[k + i]) = LowerChar(pattern[i])

HoldsDangerPattern(v, command) ==
    \E n \in 1..Len(DangerPatterns(v)) :
        ContainsIgnoringCase(command, DangerPatterns(v)[n])

\* C2: whenever the command guard has decided a command that holds one of the
\* guard's dangerous patterns anywhere, letter case ignored, the decision is
\* unsafe, also when the leading token is allow-listed.
C2_DangerPatternIsUnsafe ==
    (GuardDone /\ HoldsDangerPattern(variant, call.command)) => ~result.safe

\* C2 witness: "ls ;DD" has the allow-listed leading token "ls" and holds
\* the pattern "dd" in upper case after a ";", and is decided unsafe.
C2_Witness ==
    /\ GuardDone
    /\ call.command = S_ls \o <<" ", ";">> \o <<"D", "D">>
    /\ ~LeadingTokenOutside(call.command, allowed_commands)
    /\ HoldsDangerPattern(variant, call.command)
    /\ ~result.safe

\* What the call itself created or modified, and all it changed or read.
Written == {t.loc : t \in {u \in touched : u.how \in {"create", "modify"}}}
Accessed ==
    {t.loc : t \in {u \in touched :
                      u.how \in {"create", "modify", "delete", "read", "list"}}}

\* The canonical form of the path lies outside the workspace subtree.
OutsideWorkspace(path) == ~Under(Resolve(fs, path), Resolve(fs, WorkspaceDir))

\* C3: a write_file call on a path whose canonical form is not inside the
\* workspace subtree writes nothing and does not report success; this
\* includes a sibling directory whose name starts with the workspace's.
C3_WriteOutsideRejected ==
    (pc = "done" /\ call.op = "write_file" /\ OutsideWorkspace(call.path))
        => /\ Written = {}
           /\ ("success" \in DOMAIN result => ~result.success)

\* C4: a read_file call on a path whose canonical form is not under the
\* workspace returns neither file content nor a directory listing.
C4_ReadOutsideRejected ==
    (pc = "done" /\ call.op = "read_file" /\ OutsideWorkspace(call.path))
        => /\ "files" \notin DOMAIN result
           /\ ("content" \in DOMAIN result => result.content = EmptyContent)
           /\ Accessed = {}

\* C5: every location an operation itself created, modified, deleted, read
\* or listed lies in the workspace subtree.
C5_AccessStaysInWorkspace ==
    \A loc \in Accessed : Under(loc, Resolve(fs, WorkspaceDir))

\* The command guard of the constructed variant rejects the call's command.
CommandRejected ==
    /\ call.op = "execute"
    /\ ~GuardSafe(variant, allowed_commands, call.command)

\* C6: when the command guard rejects the command, execute returns
\* success=false with exit code 1 and the guard's reason in stderr, spawns
\* no process and creates no directory.
C6_RejectionResult ==
    (pc = "done" /\ CommandRejected)
        => /\ "raised" \notin DOMAIN result
           /\ ~result.success
           /\ result.return_code = 1
           /\ result.stderr =
                  Message("Security violation: ",
                          is_safe_command(allowed_commands, call.command))
           /\ spawned = <<>>
           /\ Written = {}

\* C7: when execute is given a working directory that does not pass the path
\* guard, no process is spawned, no directory is created, and the result is
\* success=false.
C7_WorkingDirGuarded ==
    (/\ call.op = "execute"
     /\ call.working_dir.some
     /\ ~is_safe_path(fs, call.working_dir.val).safe)
        => /\ spawned = <<>>
           /\ Written = {}
           /\ (pc = "done" => ("raised" \notin DOMAIN result /\ ~result.success))

\* C8: every process an executor entry point spawned runs a command string
\* the command guard approves.
C8_SpawnedCommandsApproved ==
    \A i \in 1..Len(spawned) :
        GuardSafe(variant, allowed_commands, spawned[i].command)

\* The deadline as the claim words it: the timeout the caller supplied,
\* else the configured default.
SuppliedDeadline ==
    IF call.timeout.some THEN call.timeout.val ELSE timeout

\* The deadline with a supplied 0 counted as not supplied.
NonZeroDeadline ==
    IF call.timeout.some /\ call.timeout.val # 0 THEN call.timeout.val
    ELSE timeout

TimedOutAt(deadline) ==
    /\ (pc = "running" => proc.elapsed <= deadline)
    /\ (pc = "done" /\ proc.status = "killed")
          => /\ proc.elapsed = deadline
             /\ ~result.success
             /\ result.return_code = -1
             /\ result.stderr.arg = <<deadline>>

\* C9 as stated: execute never waits on the command past the timeout the
\* caller supplied (else the configured default), and a command killed at
\* that deadline yields success=false, exit code -1 and the timeout in stderr.
C9_SuppliedDeadlineKept == call.op = "execute" => TimedOutAt(SuppliedDeadline)

\* C9 amended: the same, for the deadline that is the caller's timeout when
\* one other than 0 is supplied, and the configured default when none or 0
\* is supplied.
C9_NonZeroDeadlineKept == call.op = "execute" => TimedOutAt(NonZeroDeadline)

\* C9 witness: a command started with timeout=1 was still running after one
\* second and execute returned the timeout result.
C9_Witness ==
    /\ call.op = "execute"
    /\ pc = "done"
    /\ call.timeout = Some(1)
    /\ proc.status = "killed"
    /\ proc.elapsed = 1
    /\ result.return_code = -1

\* C10: every public operation returns a result; no exception escapes.
C10_NoExceptionEscapes == pc = "done" => "raised" \notin DOMAIN result

\* The call ended in a failure: its result carries an error text, or is an
\* executor result with a non-zero exit code.
FailureResult ==
    /\ pc = "done"
    /\ "raised" \notin DOMAIN result
    /\ \/ "error" \in DOMAIN result
       \/ ("return_code" \in DOMAIN result /\ result.return_code # 0)

\* C11: every operation that failed (policy rejection, size or timeout limit,
\* OS error) returns a result holding success=false; no failure result is
\* without the success flag.
C11_FailureHasSuccessFalse ==
    FailureResult => ("success" \in DOMAIN result /\ ~result.success)

\* The fields of an ExecutionResult, by the names the code gives them.
ExecutionResultFields ==
    {"success", "stdout", "stderr", "return_code", "execution_time",
     "working_dir"}

\* C12: every result execute returns, on every path, carries all six fields
\* success, stdout, stderr, exit code, duration and working directory.
C12_AllSixFields ==
    (pc = "done" /\ call.op = "execute" /\ "raised" \notin DOMAIN result)
        => ExecutionResultFields \subseteq DOMAIN result

\* A delete_path call on a spelling of the workspace directory has returned.
RootDeleteDone ==
    /\ pc = "done"
    /\ call.op = "delete_path"
    /\ Resolve(fs, call.path) = Resolve(fs, WorkspaceDir)

RootRefusal == Message("Cannot delete workspace root", <<>>)

\* C13 as stated: the workspace directory exists in every state, and a
\* delete_path call on any path that resolves to it ('.', '..' and symbolic
\* links included), with either value of recursive, fails with the reason
\* "Cannot delete workspace root".
C13_RootRefusedWithReason ==
    /\ IsDir(fs, Resolve(fs, WorkspaceDir))
    /\ RootDeleteDone => (~result.success /\ result.error = RootRefusal)

\* C13 amended: the workspace directory exists in every state, and such a
\* call fails: with the reason "Cannot delete workspace root" when the path
\* as given exists, and with "Path not found" when it does not (a missing
\* component before a '..').
C13_RootNeverDeleted ==
    /\ IsDir(fs, Resolve(fs, WorkspaceDir))
    /\ RootDeleteDone
          => /\ ~result.success
             /\ result.error = IF PathExists(fs, call.path) THEN RootRefusal
                               ELSE Message("Path not found", <<>>)

\* C13 witness: a recursive delete of the symbolic link /ws2/root, which
\* leads to the workspace directory, was refused.
C13_Witness ==
    /\ pc = "done"
    /\ call.op = "delete_path"
    /\ call.path = P.ws2_root
    /\ call.recursive
    /\ ~result.success
    /\ IsDir(fs, WorkspaceDir)

\* C14: a listing list_directory returns has every directory entry before
\* every file entry, and the entries of one type in ascending order of name.
C14_DirectoriesFirst ==
    (pc = "done" /\ call.op = "list_directory" /\ result.success)
        => \A i, j \in 1..Len(result.files) :
              i < j =>
                 LET a == result.files[i]
                     b == result.files[j]
                 IN  /\ ~(a.type = "file" /\ b.type = "directory")
                     /\ (a.type = b.type => TextLess(a.name, b.name))

\* The read_file call in progress follows, with no call in between, a
\* write_file call on the same workspace path that reported no failure.
ReadAfterWrite ==
    /\ pc = "done"
    /\ call.op = "read_file"
    /\ last_write.some
    /\ last_write.path = call.path
    /\ ~OutsideWorkspace(call.path)

\* C15: a read_file that directly follows a successful write_file of the
\* same workspace path succeeds and returns exactly the content written,
\* and a successful write leaves the file holding exactly its content,
\* whatever the file held before.
C15_RoundTrip ==
    /\ ReadAfterWrite
          => /\ "raised" \notin DOMAIN result
             /\ "error" \notin DOMAIN result
             /\ result.content = last_write.content
    /\ (pc = "done" /\ LastWrite(call, result).some)
          => fs[Resolve(fs, call.path)] = File(call.content)

\* C16: a write_file call whose content is larger than the maximum size
\* fails and neither creates nor modifies the file at the target path.
C16_OversizeLeavesNoFile ==
    (/\ pc = "done"
     /\ call.op = "write_file"
     /\ ContentLen(call.content) > max_file_size)
        => /\ ~LastWrite(call, result).some
           /\ ("success" \in DOMAIN result => ~result.success)
           /\ Resolve(fs, call.path) \notin Written

\* The file operations that take a path, and the path the call in progress
\* was given (search_files and list_directory take an optional one).
PathOperations ==
    {"read_file", "write_file", "list_directory", "get_file_info",
     "create_directory", "delete_path", "search_files"}

GivenPath ==
    IF call.op = "search_files" THEN call.directory
    ELSE IF call.op = "list_directory" THEN call.path
    ELSE Some(call.path)

PathOperationDone ==
    /\ pc = "done"
    /\ call.op \in PathOperations
    /\ GivenPath.some

\* C17: when the path guard rejects the path of a file operation, the
\* operation returns success=false with a reason and has made no filesystem
\* access besides resolving the path.
C17_GuardBeforeAccess ==
    (PathOperationDone /\ ~is_safe_path(fs, GivenPath.val).safe)
        => /\ "raised" \notin DOMAIN result
           /\ "success" \in DOMAIN result
           /\ ~result.success
           /\ "error" \in DOMAIN result
           /\ touched = {}

\* The canonical form of the path starts with a restricted prefix.
UnderRestrictedPrefix(path) ==
    \E n \in 1..Len(restricted_paths) :
        StartsWith(Str(Resolve(fs, path)), restricted_paths[n])

\* C18: no file operation succeeds on a path whose canonical form starts
\* with a restricted prefix, and nothing is read, written, listed or deleted
\* by such a call.
C18_RestrictedNeverAccessed ==
    (PathOperationDone /\ UnderRestrictedPrefix(GivenPath.val))
        => /\ "raised" \notin DOMAIN result
           /\ "error" \in DOMAIN result
           /\ Accessed = {}

\* The event loop thread is inside the subprocess wait of a command.
CommandRunning == Handling # {} /\ proc.status = "running"

\* C19: while the handler of one request waits on its command, any other
\* request that has been received can be taken up by the request handler.
C19_OtherRequestsNotStalled ==
    \A e \in Endpoints :
        (CommandRunning /\ requests[e].status = "pending")
            => ENABLED StartHandler(e)

\* The paths and commands whose guard decisions are compared: a path of
\* each kind (inside the workspace, leaving it through "..", through each
\* symbolic link, and outside it) and every command passed to execute.
GuardPaths ==
    {P.ws_f, P.ws_up_etc_passwd, P.ws_lnk_passwd, P.ws2_root, P.ws_sub_out_x,
     P.home_x}
GuardCommands == ExecCommands

\* The symbolic links of a filesystem, each with its target.
LinkMap(f) ==
    [l \in {k \in DOMAIN f : f[k].kind = "link"} |-> f[l].target]

\* The decisions a call gets when it runs alone on the constructed server.
AloneCommandDecisions ==
    [v \in Variants |->
        [a \in AllowConfigs |->
            [c \in GuardCommands |->
                GuardSafe(v, init_allowed_commands(v, a), c)]]]
AlonePathDecisions == [p \in GuardPaths |-> is_safe_path(InitFS, p)]

\* The configuration is the one set at construction, and the command guard
\* decides every command as it does for a call that runs alone.
ConfigurationKept ==
    /\ allowed_commands = init_allowed_commands(variant, cfg_allowed)
    /\ timeout = ConfiguredTimeout
    /\ \A c \in GuardCommands :
          GuardSafe(variant, allowed_commands, c)
              = AloneCommandDecisions[variant][cfg_allowed][c]

\* The path guard decides every path as it does for a call that runs alone.
PathDecisionsKept ==
    \A p \in GuardPaths : is_safe_path(fs, p) = AlonePathDecisions[p]

WriteRejected ==
    /\ pc = "done"
    /\ call.op = "write_file"
    /\ "error" \in DOMAIN result
    /\ result.error.text \in
          {"Path is in restricted area: ", "Path traversal outside workspace",
           "Can only write to workspace", "Content too large"}

\* C22: a write_file call that is rejected, by the path guard or for
\* oversized content, leaves the filesystem unchanged: it creates no file
\* and no parent directory.
C22_RejectedWriteChangesNothing ==
    WriteRejected => touched = {}

\* The command of the scenario, and the reason naming its pattern.
RmRfRoot == <<"r", "m", " ", "-", "r", "f", " ", "/">>
NamesRmRfRoot ==
    /\ result.stderr.text = "Security violation: "
    /\ result.stderr.arg.text = "Command contains dangerous pattern: "
    /\ result.stderr.arg.arg = RmRfRoot

\* C23: execute("rm -rf /") returns success=false with a reason that names
\* the matched dangerous pattern and spawns no process, whatever allow-list
\* is configured.
C23_RmRfRootNamesPattern ==
    (pc = "done" /\ call.op = "execute" /\ call.command = RmRfRoot)
        => /\ "raised" \notin DOMAIN result
           /\ ~result.success
           /\ spawned = <<>>
           /\ NamesRmRfRoot

\* The command is the name n, alone or followed by arguments.
NameThenArgs(command, n) ==
    /\ StartsWith(command, n)
    /\ (Len(command) = Len(n) \/ command[Len(n) + 1] = " ")

\* Directory prefixes put before a command name.
DirPrefixes == {<<"s", "h">>, <<"/", "o", "p", "t">>, <<".">>}

\* What the guard of the constructed variant answers for a command.
GuardOutcome(command) ==
    IF variant = "scr" THEN is_safe_command(allowed_commands, command)
    ELSE [safe |-> _is_safe_command(allowed_commands, command)]

\* The leading token of the command is no allow-listed name, and differs
\* from one only in letter case.
LeadingTokenCased(command) ==
    LET sp == shlex_split(command) IN
    /\ sp.ok
    /\ sp.parts # <<>>
    /\ sp.parts[1] \notin allowed_commands
    /\ \E n \in allowed_commands : Lower(sp.parts[1]) = Lower(n)

\* C24: the command guard compares, case-sensitively, only the final path
\* component of the first token against the allow-list: a command that is an
\* allow-listed name with arguments passes the allow-list step, with any
\* directory prefix before the name the guard answers as without it, and a
\* name that differs from an allow-listed one only in letter case is
\* rejected with a reason naming the rejected command.
C24_BaseNameComparedCaseSensitively ==
    GuardDone =>
        /\ \A n \in allowed_commands :
              NameThenArgs(call.command, n) =>
                  /\ \A d \in DirPrefixes :
                        GuardOutcome(d \o <<"/">> \o call.command) = result
                  /\ "text" \in DOMAIN result
                        => result.text # "Command not in allowed list"
        /\ LeadingTokenCased(call.command) =>
              /\ ~result.safe
              /\ "text" \in DOMAIN result
              /\ result.text = "Command not in allowed list"
              /\ result.arg = shlex_split(call.command).parts[1]

\* The command text holds ".." and a reference to a restricted root path.
TraversalAttempt(command) ==
    /\ Contains(command, <<".", ".">>)
    /\ \E x \in {<<"/", "e", "t", "c">>, <<"/", "r", "o", "o", "t">>,
                 <<"/", "b", "o", "o", "t">>} : Contains(command, x)

\* C25: every command whose text contains ".." together with a reference to
\* "/etc", "/root" or "/boot" is classified unsafe by the command guard,
\* also when its leading token is allow-listed and no danger pattern matches.
C25_TraversalIsUnsafe ==
    (GuardDone /\ TraversalAttempt(call.command)) => ~result.safe

\* The command has no token (it is empty or whitespace only), or its quotes
\* are unbalanced: an odd number of single quotes and no other quoting.
Untokenizable(command) ==
    \/ \A i \in 1..Len(command) : command[i] \in {" ", "\t", "\n", "\r"}
    \/ /\ Len(SelectSeq(command, LAMBDA ch : ch = "'")) % 2 = 1
       /\ \A i \in 1..Len(command) : command[i] \notin {"\"", "\\"}

\* C26: the command guard fails closed: a command whose tokenization raises
\* an error (unbalanced quotes) and a command with no token (empty or
\* whitespace only) are classified unsafe, and execute, raising nothing,
\* reports failure and spawns no process for them.
C26_GuardFailsClosed ==
    (pc \in {"running", "done"} /\ call.op = "execute"
        /\ Untokenizable(call.command))
        => /\ ~GuardSafe(variant, allowed_commands, call.command)
           /\ pc = "done"
           /\ "raised" \notin DOMAIN result
           /\ ~result.success
           /\ spawned = <<>>

\* C26 witness: execute has refused a command with an unbalanced quote.
C26_Witness ==
    /\ pc = "done"
    /\ call.op = "execute"
    /\ ~shlex_split(call.command).ok
    /\ Untokenizable(call.command)
    /\ ~result.success
    /\ spawned = <<>>

\* The eight operations the gateway names.
GatewayOperations ==
    {"shell", "read_file", "write_file", "list_directory", "get_file_info",
     "create_directory", "delete_path", "search_files"}

\* C27: a tool call for each of the eight named operations is dispatched to
\* the tool-server operation of that name, and a tool call with any other
\* name returns an error result without invoking an operation: a call
\* answered as an unknown tool has none of the eight names.
C27_EightToolsDispatched ==
    (pc = "done" /\ call.op = "execute_tool")
        => /\ call.name \notin GatewayOperations
           /\ "error" \in DOMAIN result
           /\ touched = {}
           /\ spawned = <<>>

\* C28: the allow-list in force is exactly the list passed at construction,
\* the built-in default being used only when no list is passed; a tool
\* server constructed with an explicitly empty allow-list permits no command.
C28_EmptyAllowListPermitsNothing ==
    /\ cfg_allowed.given => allowed_commands = cfg_allowed.list
    /\ ~cfg_allowed.given =>
          allowed_commands = IF variant = "scr" THEN scr_default_allowed_commands
                             ELSE src_default_allowed_commands
    /\ (GuardDone /\ cfg_allowed = Given({})) => ~result.safe

\* The locations the call in progress created, modified or deleted.
Modified ==
    {t.loc : t \in {u \in touched : u.how \in {"create", "modify", "delete"}}}

\* C21: with the workspace changing between the guard's check and the
\* operation's use of the path, a write_file, create_directory or
\* delete_path that returns success modified only locations under the
\* workspace directory, and it operated on the location the guard approved.
C21_ModifiesApprovedLocationOnly ==
    (/\ pc = "done"
     /\ "approved" \in DOMAIN call
     /\ "success" \in DOMAIN result
     /\ result.success)
        => /\ \A l \in Modified : Under(l, Resolve(fs, WorkspaceDir))
           /\ Modified # {} => call.approved \in Modified

\* The monitoring loops that were started and have not ended.
ActiveLoops ==
    {t \in 1..MaxThreads : monitor.loops[t] \in {"check", "collect", "sleep"}}

\* C29: after any sequence of start_monitoring and stop_monitoring calls at
\* most one monitoring loop is active: once a call has returned, no two
\* loops are running, also when a stop_monitoring whose join timed out
\* with the loop asleep was followed by start_monitoring.
C29_AtMostOneLoop ==
    monitor.caller = "idle" => Cardinality(ActiveLoops) <= 1

\* The usage rows recorded for a date.
RowsOn(date) == Len(SelectSeq(tracker.usage, LAMBDA r : r.date = date))

\* C30: on one tracker, a summary returned after track_usage calls counts
\* every usage tracked so far (the cache never serves a summary older than
\* the last track_usage), and the request count of the daily summary of a
\* date equals the number of usage rows recorded for that date.
C30_SummariesCountEveryUsage ==
    /\ tracker.returned.kind = "monthly"
          => tracker.returned.requests = Len(tracker.usage)
    /\ tracker.returned.kind = "user"
          => tracker.returned.requests =
                 Len(SelectSeq(tracker.usage,
                               LAMBDA r : r.user = tracker.returned.key[2]))
    /\ tracker.returned.kind = "daily"
          => tracker.returned.requests = RowsOn(tracker.returned.key[2])
====
